---- MODULE Spec2Model ----
(***************************************************************************)
(* Model of jakes_mcp_server (src/src/main.rs): the line-delimited         *)
(* JSON-RPC loop of main, the dispatcher handle_request, the path resolver *)
(* resolve_under_root and the tools list_dir, read_file, write_file and    *)
(* unshare_exec, over an explicit model of the file system (directories,   *)
(* files and symbolic links) the tools act on.                             *)
(***************************************************************************)
EXTENDS Integers, Sequences, FiniteSets, TLC

(***************************************************************************)
(* Bounds of the model.                                                    *)
(***************************************************************************)
\* number of input lines a session reads before the stream ends
MaxLines == 2
\* number of symbolic links one path lookup follows before it fails (ELOOP)
MaxLinks == 2

(***************************************************************************)
(* Paths.  A path is what std::path::Path sees: whether it starts with    *)
(* the root directory, and its components; ".." is a component, the empty  *)
(* path has none.                                                          *)
(***************************************************************************)
P(abs, segs) == [abs |-> abs, segs |-> segs]

EmptyPath == P(FALSE, <<>>)

\* Path::join: an absolute right-hand side replaces the left-hand side.
Join(base, rel) ==
    IF rel.abs THEN rel ELSE P(base.abs, base.segs \o rel.segs)

\* Path::components: the root directory is a component of its own.
Components(p) == (IF p.abs THEN <<"/">> ELSE <<>>) \o p.segs

IsPrefix(s, t) == Len(s) <= Len(t) /\ SubSeq(t, 1, Len(s)) = s

\* Path::starts_with: whole components of base are a prefix of those of p.
StartsWith(p, base) == IsPrefix(Components(base), Components(p))

\* Path::parent: drops the last component; none for "/" and for "".
HasParent(p) == p.segs # <<>>

Parent(p) == P(p.abs, SubSeq(p.segs, 1, Len(p.segs) - 1))

AbsOf(canon) == P(TRUE, canon)

(***************************************************************************)
(* The file system: a function from the absolute, symlink-free location    *)
(* of every existing node to the node.  <<>> is the root directory "/".    *)
(***************************************************************************)
DirNode == [kind |-> "dir", data |-> <<>>, target |-> EmptyPath]

FileNode(data) == [kind |-> "file", data |-> data, target |-> EmptyPath]

LinkNode(target) == [kind |-> "link", data |-> <<>>, target |-> target]

\* a directory whose owner removed its permissions: its metadata says
\* directory, reading or traversing it fails
LockedNode == [kind |-> "locked", data |-> <<>>, target |-> EmptyPath]

Up(canon) == IF canon = <<>> THEN <<>> ELSE SubSeq(canon, 1, Len(canon) - 1)

Ok(canon) == [ok |-> TRUE, at |-> canon, err |-> "none"]

Fail(err) == [ok |-> FALSE, at |-> <<>>, err |-> err]

\* The kernel's path walk: from directory cur, component by component,
\* following symbolic links (at most `links` of them), ".." taking the parent
\* of the directory reached so far.
RECURSIVE Walk(_, _, _, _)
Walk(f, cur, segs, links) ==
    IF segs = <<>> THEN Ok(cur)
    ELSE IF f[cur].kind # "dir" THEN Fail("NotADirectory")
    ELSE LET s == Head(segs)
             rest == Tail(segs)
             q == Append(cur, s)
         IN  IF s = "." THEN Walk(f, cur, rest, links)
             ELSE IF s = ".." THEN Walk(f, Up(cur), rest, links)
             ELSE IF q \notin DOMAIN f THEN Fail("NotFound")
             ELSE IF f[q].kind = "link"
                  THEN IF links = 0 THEN Fail("Loop")
                       ELSE Walk(f, IF f[q].target.abs THEN <<>> ELSE cur,
                                 f[q].target.segs \o rest, links - 1)
             ELSE Walk(f, q, rest, links)

\* Lookup of a path by the operating system, relative paths from the working
\* directory; the empty path names nothing (ENOENT).
Lookup(f, cwd, p) ==
    IF ~p.abs /\ p.segs = <<>> THEN Fail("NotFound")
    ELSE Walk(f, IF p.abs THEN <<>> ELSE cwd, p.segs, MaxLinks)

\* Path::exists
Exists(f, cwd, p) == Lookup(f, cwd, p).ok

\* Path::is_dir
IsDir(f, cwd, p) ==
    LET r == Lookup(f, cwd, p) IN r.ok /\ f[r.at].kind = "dir"

\* f with node n at location q
Put(f, q, n) == [x \in DOMAIN f \cup {q} |-> IF x = q THEN n ELSE f[x]]

(***************************************************************************)
(* The file-system calls the tools make (std::fs / tokio::fs).             *)
(***************************************************************************)
Start(cwd, p) == IF p.abs THEN <<>> ELSE cwd

Last(s) == s[Len(s)]

Front(s) == SubSeq(s, 1, Len(s) - 1)

\* mkdir(2): the parent is looked up, the last component must not exist.
Mkdir(f, cwd, p) ==
    IF p.segs = <<>>
    THEN [f |-> f, err |-> IF p.abs THEN "AlreadyExists" ELSE "NotFound"]
    ELSE LET pr == Walk(f, Start(cwd, p), Front(p.segs), MaxLinks)
             q == Append(pr.at, Last(p.segs))
         IN  IF ~pr.ok THEN [f |-> f, err |-> pr.err]
             ELSE IF f[pr.at].kind # "dir" THEN [f |-> f, err |-> "NotADirectory"]
             ELSE IF Last(p.segs) \in {".", ".."} \/ q \in DOMAIN f
                  THEN [f |-> f, err |-> "AlreadyExists"]
             ELSE [f |-> Put(f, q, DirNode), err |-> "none"]

\* std::fs::create_dir_all: mkdir; when the parent is missing, create the
\* parent first and mkdir again; an existing directory is a success.
RECURSIVE CreateDirAll(_, _, _)
CreateDirAll(f, cwd, p) ==
    IF p = EmptyPath THEN [f |-> f, ok |-> TRUE]
    ELSE LET m == Mkdir(f, cwd, p)
         IN  IF m.err = "none" THEN [f |-> m.f, ok |-> TRUE]
             ELSE IF m.err # "NotFound" THEN [f |-> f, ok |-> IsDir(f, cwd, p)]
             ELSE IF ~HasParent(p) THEN [f |-> f, ok |-> FALSE]
             ELSE LET r == CreateDirAll(f, cwd, Parent(p))
                      m2 == Mkdir(r.f, cwd, p)
                  IN  IF ~r.ok THEN r
                      ELSE IF m2.err = "none" THEN [f |-> m2.f, ok |-> TRUE]
                      ELSE [f |-> r.f, ok |-> IsDir(r.f, cwd, p)]

\* open(2) with O_CREAT and O_TRUNC or O_APPEND, then write_all: the last
\* component is created when missing, a symbolic link there is followed.
RECURSIVE OpenWrite(_, _, _, _, _, _)
OpenWrite(f, cur, segs, links, bytes, append) ==
    IF segs = <<>> THEN [f |-> f, err |-> "NotFound"]
    ELSE LET pr == Walk(f, cur, Front(segs), links)
             q == Append(pr.at, Last(segs))
         IN  IF ~pr.ok THEN [f |-> f, err |-> pr.err]
             ELSE IF f[pr.at].kind # "dir" THEN [f |-> f, err |-> "NotADirectory"]
             ELSE IF Last(segs) \in {".", ".."} THEN [f |-> f, err |-> "IsADirectory"]
             ELSE IF q \notin DOMAIN f
                  THEN [f |-> Put(f, q, FileNode(bytes)), err |-> "none"]
             ELSE IF f[q].kind = "dir" THEN [f |-> f, err |-> "IsADirectory"]
             ELSE IF f[q].kind = "file"
                  THEN [f |-> Put(f, q, FileNode(IF append THEN f[q].data \o bytes
                                                  ELSE bytes)),
                        err |-> "none"]
             ELSE IF links = 0 THEN [f |-> f, err |-> "Loop"]
             ELSE IF f[q].target.segs = <<>> THEN [f |-> f, err |-> "IsADirectory"]
             ELSE OpenWrite(f, IF f[q].target.abs THEN <<>> ELSE pr.at,
                            f[q].target.segs, links - 1, bytes, append)

\* fs::write (append = FALSE) and OpenOptions::create(true).append(true)
WriteBytes(f, cwd, p, bytes, append) ==
    OpenWrite(f, Start(cwd, p), p.segs, MaxLinks, bytes, append)

\* fs::read
ReadBytes(f, cwd, p) ==
    LET r == Lookup(f, cwd, p)
    IN  IF ~r.ok THEN [data |-> <<>>, err |-> r.err]
        ELSE IF f[r.at].kind # "file" THEN [data |-> <<>>, err |-> "IsADirectory"]
        ELSE [data |-> f[r.at].data, err |-> "none"]

\* the locations of the entries of directory d
Children(f, d) == {q \in DOMAIN f : q # <<>> /\ Up(q) = d}

(***************************************************************************)
(* resolve_under_root                                                      *)
(***************************************************************************)
\* root.canonicalize().unwrap_or_else(|_| root.to_path_buf())
CanonicalBase(f, cwd, root) ==
    LET r == Lookup(f, cwd, root) IN IF r.ok THEN AbsOf(r.at) ELSE root

\* the joined path, canonicalized only if it exists
Canonical(f, cwd, joined) ==
    LET r == Lookup(f, cwd, joined) IN IF r.ok THEN AbsOf(r.at) ELSE joined

resolve_under_root(f, cwd, root, rel) ==
    LET base == CanonicalBase(f, cwd, root)
        canonical == Canonical(f, cwd, Join(base, rel))
    IN  IF ~StartsWith(canonical, base)
        THEN [ok |-> FALSE, path |-> canonical]
        ELSE [ok |-> TRUE, path |-> canonical]

(***************************************************************************)
(* Text.  A string is a sequence of code points; as_bytes is its UTF-8     *)
(* encoding and String::from_utf8_lossy decodes bytes, turning every byte  *)
(* that is no part of a well-formed sequence into U+FFFD.                  *)
(***************************************************************************)
Replacement == 65533

Utf8(c) == IF c < 128 THEN <<c>> ELSE <<192 + (c \div 64), 128 + (c % 64)>>

RECURSIVE AsBytes(_)
AsBytes(str) == IF str = <<>> THEN <<>> ELSE Utf8(Head(str)) \o AsBytes(Tail(str))

IsCont(b) == b >= 128 /\ b <= 191

RECURSIVE FromUtf8Lossy(_)
FromUtf8Lossy(bytes) ==
    IF bytes = <<>> THEN <<>>
    ELSE LET b == Head(bytes)
         IN  IF b < 128 THEN <<b>> \o FromUtf8Lossy(Tail(bytes))
             ELSE IF b >= 194 /\ b <= 223 /\ Len(bytes) >= 2 /\ IsCont(bytes[2])
                  THEN <<(b - 192) * 64 + (bytes[2] - 128)>>
                       \o FromUtf8Lossy(Tail(Tail(bytes)))
             ELSE <<Replacement>> \o FromUtf8Lossy(Tail(bytes))

(***************************************************************************)
(* usize arithmetic of read_file, at a reduced width.                      *)
(***************************************************************************)
UsizeMax == 15

Min(a, b) == IF a <= b THEN a ELSE b

\* SaturatingAdd as it would be with a wrapping addition
WrappingAdd(a, b) == (a + b) % (UsizeMax + 1)

SaturatingAdd(a, b) == Min(a + b, UsizeMax)

(***************************************************************************)
(* JSON-RPC values.                                                        *)
(***************************************************************************)
\* the "id" member of an input object: absent, null, an integer, a string,
\* or a value serde cannot make an Id of (a fraction, a boolean, an object)
IdAbsent == [k |-> "absent", v |-> 0]

IdNull == [k |-> "null", v |-> 0]

IdBad == [k |-> "bad", v |-> 0]

IdNum(n) == [k |-> "num", v |-> n]

IdStr(n) == [k |-> "str", v |-> n]

\* Option<Id>
NoId == [k |-> "none", v |-> 0]

\* deserializing Option<Id> (untagged Num(i64) | Str(String)): an absent
\* member and null both give None
ParseId(idf) == IF idf.k \in {"absent", "null"} THEN NoId ELSE idf

Absent == "<absent>"

\* the arguments object of a tools/call: `has` names the members present
\* with a value of the type the tool asks for (as_str, as_bool, as_u64)
NoArgs ==
    [has |-> {}, root |-> EmptyPath, path |-> EmptyPath, content |-> <<>>,
     append |-> FALSE, create |-> FALSE, recursive |-> FALSE,
     offset |-> 0, length |-> 0, binary |-> Absent]

\* params: the tool name (Absent when params.name is no string) and arguments
NoParams == [name |-> Absent, arguments |-> NoArgs]

\* one input line: empty, white space only, text that is no JSON, or a JSON
\* object with or without the members RpcRequest requires
TextLine(t) ==
    [text |-> t, jsonrpc |-> FALSE, id |-> IdAbsent, method |-> Absent,
     params |-> NoParams]

JsonLine(jsonrpc, id, method, params) ==
    [text |-> "json", jsonrpc |-> jsonrpc, id |-> id, method |-> method,
     params |-> params]

IsBlank(l) == l.text \in {"empty", "spaces"}

\* RpcRequest
NoReq == [some |-> FALSE, id |-> NoId, method |-> Absent, params |-> NoParams]

Req(id, method, params) ==
    [some |-> TRUE, id |-> id, method |-> method, params |-> params]

\* line.trim() of the buffer: the non-blank lines it holds
Trimmed(buf) == SelectSeq(buf, LAMBDA l : ~IsBlank(l))

\* ParseRequest as it would be with #[serde(default)] on jsonrpc: an object
\* without the jsonrpc member is accepted
ParseRequestLenient(buf) ==
    LET t == Trimmed(buf)
    IN  IF Len(t) # 1 THEN NoReq
        ELSE IF t[1].text # "json" \/ t[1].method = Absent \/ t[1].id.k = "bad"
             THEN NoReq
        ELSE Req(ParseId(t[1].id), t[1].method, t[1].params)

\* serde_json::from_str::<RpcRequest>(trimmed): fails on text that is not one
\* JSON object, on a missing jsonrpc or method string and on an id that is
\* neither an integer nor a string
ParseRequest(buf) ==
    LET t == Trimmed(buf)
    IN  IF Len(t) # 1 THEN NoReq
        ELSE IF t[1].text # "json" \/ ~t[1].jsonrpc \/ t[1].method = Absent
                \/ t[1].id.k = "bad"
             THEN NoReq
        ELSE Req(ParseId(t[1].id), t[1].method, t[1].params)

\* Option<serde_json::Value> result, Option<RpcError> error
NoValue == [tag |-> "none", text |-> <<>>, entries |-> <<>>, n |-> 0, path |-> EmptyPath]

Value(tag) == [NoValue EXCEPT !.tag = tag]

NoError == [code |-> 0, msg |-> "none", arg |-> ""]

RpcError(code, msg, arg) == [code |-> code, msg |-> msg, arg |-> arg]

\* RpcResponse
RpcResponse(id, result, error) == [id |-> id, result |-> result, error |-> error]

NoResp == [some |-> FALSE, r |-> RpcResponse(NoId, NoValue, NoError)]

\* serde_json::to_string(&response): the members written, the Options that
\* are None skipped (skip_serializing_if = "Option::is_none")
Members(r) ==
    {"jsonrpc"} \cup (IF r.id.k # "none" THEN {"id"} ELSE {})
                \cup (IF r.result.tag # "none" THEN {"result"} ELSE {})
                \cup (IF r.error.msg # "none" THEN {"error"} ELSE {})

ParseErrorCode == -32700

RuntimeErrorCode == -32000

(***************************************************************************)
(* The tools.  Each returns the file system it leaves and Ok(value) or     *)
(* Err(message).                                                           *)
(***************************************************************************)
OkRes(f, val) == [f |-> f, ok |-> TRUE, val |-> val, msg |-> "none", arg |-> ""]

ErrRes(f, msg, arg) == [f |-> f, ok |-> FALSE, val |-> NoValue, msg |-> msg, arg |-> arg]

\* the order in which read_dir yields the entries of a directory: fixed for
\* a given directory content
RECURSIVE IterationOrder(_)
IterationOrder(S) ==
    IF S = {} THEN <<>>
    ELSE LET x == CHOOSE y \in S : TRUE IN <<x>> \o IterationOrder(S \ {x})

\* md.len() of a DirEntry's own metadata (the entry itself, links not followed)
MetaLen(n) ==
    IF n.kind = "file" THEN Len(n.data)
    ELSE IF n.kind = "link" THEN Len(n.target.segs)
    ELSE 0

\* md.is_dir() as it would be with fs::metadata(entry.path()), which follows
\* symbolic links
FollowedIsDir(f, q) ==
    LET r == Walk(f, Up(q), <<Last(q)>>, MaxLinks)
    IN  r.ok /\ f[r.at].kind \in {"dir", "locked"}

\* md.is_dir() of a DirEntry's own metadata
MetaIsDir(f, q) == f[q].kind \in {"dir", "locked"}

\* the records pushed for the entries of `dir`, read at location `at`
EntriesOf(f, dir, at) ==
    LET order == IterationOrder(Children(f, at))
    IN  [i \in 1..Len(order) |->
            [path |-> Join(dir, P(FALSE, <<Last(order[i])>>)),
             is_dir |-> MetaIsDir(f, order[i]),
             len |-> MetaLen(f[order[i]])]]

EntryPath(e) == e.path

RECURSIVE MapPath(_)
MapPath(es) == IF es = <<>> THEN <<>> ELSE <<EntryPath(Head(es))>> \o MapPath(Tail(es))

\* Pushed as it would be without the test of `recursive`
PushedAlways(es, recursive) == MapPath(SelectSeq(es, LAMBDA e : e.is_dir))

\* the paths pushed on the stack for the entries es of one directory
Pushed(es, recursive) ==
    IF recursive THEN MapPath(SelectSeq(es, LAMBDA e : e.is_dir)) ELSE <<>>

\* the while-let loop over the work stack: whether every read_dir succeeded,
\* the entries collected, and the locations of the directories read, in order
RECURSIVE ListRun(_, _, _, _, _, _)
ListRun(f, cwd, stack, entries, expanded, recursive) ==
    IF stack = <<>> THEN [ok |-> TRUE, entries |-> entries, expanded |-> expanded]
    ELSE LET dir == Last(stack)
             rd == Lookup(f, cwd, dir)
         IN  IF ~rd.ok \/ f[rd.at].kind # "dir"
             THEN [ok |-> FALSE, entries |-> entries, expanded |-> expanded]
             ELSE LET es == EntriesOf(f, dir, rd.at)
                  IN  ListRun(f, cwd, Front(stack) \o Pushed(es, recursive),
                              entries \o es, Append(expanded, rd.at), recursive)

\* ListLoop as it would be if a failing read_dir ended the loop with the
\* entries collected so far
ListLoopPartial(f, cwd, stack, entries, recursive) ==
    OkRes(f, [Value("json") EXCEPT
                 !.entries = ListRun(f, cwd, stack, entries, <<>>, recursive).entries])

\* the loop and the result built after it; a failing read_dir returns early
ListLoop(f, cwd, stack, entries, recursive) ==
    LET run == ListRun(f, cwd, stack, entries, <<>>, recursive)
    IN  IF run.ok THEN OkRes(f, [Value("json") EXCEPT !.entries = run.entries])
        ELSE ErrRes(f, "read_dir", "")

tool_list_dir(f, cwd, a, root) ==
    IF "path" \notin a.has THEN ErrRes(f, "list_dir.path is required", "")
    ELSE LET r == resolve_under_root(f, cwd, root, a.path)
         IN  IF ~r.ok THEN ErrRes(f, "path escapes root", "")
             ELSE ListLoop(f, cwd, <<r.path>>, <<>>,
                           "recursive" \in a.has /\ a.recursive)

\* the bounds of the byte slice read_file takes
SliceRange(n, offset, hasLength, length) ==
    [start |-> Min(offset, n),
     end |-> IF hasLength THEN Min(SaturatingAdd(offset, length), n) ELSE n]

\* the byte slice read_file returns
Slice(data, offset, hasLength, length) ==
    LET r == SliceRange(Len(data), offset, hasLength, length)
    IN  SubSeq(data, r.start + 1, r.end)

tool_read_file(f, cwd, a, root) ==
    IF "path" \notin a.has THEN ErrRes(f, "read_file.path is required", "")
    ELSE LET offset == IF "offset" \in a.has THEN a.offset ELSE 0
             r == resolve_under_root(f, cwd, root, a.path)
             rd == ReadBytes(f, cwd, r.path)
         IN  IF ~r.ok THEN ErrRes(f, "path escapes root", "")
             ELSE IF rd.err # "none" THEN ErrRes(f, "read", rd.err)
             ELSE IF LET sr == SliceRange(Len(rd.data), offset, "length" \in a.has,
                                          a.length)
                     IN  sr.start > sr.end
                  THEN ErrRes(f, "panic", "")
             ELSE OkRes(f, [Value("text") EXCEPT
                     !.text = FromUtf8Lossy(
                         Slice(rd.data, offset, "length" \in a.has, a.length))])

\* tool_write_file as it would be with the parent directories created
\* before the path is resolved
tool_write_file_eager(f, cwd, a, root) ==
    IF "path" \notin a.has THEN ErrRes(f, "write_file.path is required", "")
    ELSE IF "content" \notin a.has THEN ErrRes(f, "write_file.content is required", "")
    ELSE LET append == "append" \in a.has /\ a.append
             r == resolve_under_root(f, cwd, root, a.path)
             f1 == IF HasParent(r.path) THEN CreateDirAll(f, cwd, Parent(r.path)).f
                   ELSE f
             w == WriteBytes(f1, cwd, r.path, AsBytes(a.content), append)
         IN  IF ~r.ok THEN ErrRes(f1, "path escapes root", "")
             ELSE IF w.err # "none" THEN ErrRes(w.f, "write", w.err)
             ELSE OkRes(w.f, [Value("wrote") EXCEPT
                     !.n = Len(AsBytes(a.content)), !.path = a.path])

\* tool_write_file as it would be if create = false kept it from creating
\* the file
tool_write_file_create(f, cwd, a, root) ==
    IF "path" \notin a.has THEN ErrRes(f, "write_file.path is required", "")
    ELSE IF "content" \notin a.has THEN ErrRes(f, "write_file.content is required", "")
    ELSE LET append == "append" \in a.has /\ a.append
             r == resolve_under_root(f, cwd, root, a.path)
             f1 == IF HasParent(r.path) THEN CreateDirAll(f, cwd, Parent(r.path)).f
                   ELSE f
             w == WriteBytes(f1, cwd, r.path, AsBytes(a.content), append)
         IN  IF ~r.ok THEN ErrRes(f, "path escapes root", "")
             ELSE IF "create" \in a.has /\ ~a.create /\ ~Exists(f1, cwd, r.path)
                  THEN ErrRes(f1, "write", "NotFound")
             ELSE IF w.err # "none" THEN ErrRes(w.f, "write", w.err)
             ELSE OkRes(w.f, [Value("wrote") EXCEPT
                     !.n = Len(AsBytes(a.content)), !.path = a.path])

tool_write_file(f, cwd, a, root) ==
    IF "path" \notin a.has THEN ErrRes(f, "write_file.path is required", "")
    ELSE IF "content" \notin a.has THEN ErrRes(f, "write_file.content is required", "")
    ELSE LET append == "append" \in a.has /\ a.append
             r == resolve_under_root(f, cwd, root, a.path)
             f1 == IF HasParent(r.path) THEN CreateDirAll(f, cwd, Parent(r.path)).f
                   ELSE f
             w == WriteBytes(f1, cwd, r.path, AsBytes(a.content), append)
         IN  IF ~r.ok THEN ErrRes(f, "path escapes root", "")
             ELSE IF w.err # "none" THEN ErrRes(w.f, "write", w.err)
             ELSE OkRes(w.f, [Value("wrote") EXCEPT
                     !.n = Len(AsBytes(a.content)), !.path = a.path])

\* What Command::output() can give: the unshare program could not be started
\* (spawned = FALSE), or it ran.  Once running, unshare may be refused the
\* new namespaces by the host (unshared = FALSE), may fail to execute the
\* binary (found = FALSE), or runs the binary in the namespaces, which ends
\* with `code`, -1 standing for "no code".  What the child does to the file
\* system is outside the model.
ExecOutcomes == [spawned : BOOLEAN, unshared : BOOLEAN, found : BOOLEAN, code : {-1, 0, 1}]

\* output.status.code().unwrap_or(-1): unshare ends with 1 when the
\* namespaces are refused and with 127 when the binary cannot be executed,
\* otherwise with what the binary ended with
ExitStatus(outcome) ==
    IF ~outcome.unshared THEN 1 ELSE IF ~outcome.found THEN 127 ELSE outcome.code

\* the binary ran, inside the namespaces
RanSandboxed(outcome) == outcome.spawned /\ outcome.unshared /\ outcome.found

\* tool_unshare_exec as it would be if a non-zero exit status were an error
tool_unshare_exec_checked(f, cwd, a, root, outcome) ==
    IF a.binary = Absent THEN ErrRes(f, "binary required", "")
    ELSE LET c == CreateDirAll(f, cwd, Join(root, P(FALSE, <<"sandbox">>)))
         IN  IF ~c.ok THEN ErrRes(c.f, "create_dir_all", "")
             ELSE IF ~outcome.spawned THEN ErrRes(c.f, "spawn", "")
             ELSE IF ExitStatus(outcome) # 0 THEN ErrRes(c.f, "exit", "")
             ELSE OkRes(c.f, [Value("exec") EXCEPT !.n = ExitStatus(outcome)])

tool_unshare_exec(f, cwd, a, root, outcome) ==
    IF a.binary = Absent THEN ErrRes(f, "binary required", "")
    ELSE LET c == CreateDirAll(f, cwd, Join(root, P(FALSE, <<"sandbox">>)))
         IN  IF ~c.ok THEN ErrRes(c.f, "create_dir_all", "")
             ELSE IF ~outcome.spawned THEN ErrRes(c.f, "spawn", "")
             ELSE OkRes(c.f, [Value("exec") EXCEPT !.n = ExitStatus(outcome)])

(***************************************************************************)
(* handle_request.  argsRoot is the startup --root the function receives   *)
(* as `args`; inside "tools/call" the name `args` is rebound to the call's *)
(* arguments, so the root the tools get is arguments.root, or "".          *)
(***************************************************************************)
CallRoot(argsRoot, a) == IF "root" \in a.has THEN a.root ELSE EmptyPath

handle_request(f, cwd, argsRoot, req, outcome) ==
    LET a == req.params.arguments
        root == CallRoot(argsRoot, a)
        name == req.params.name
    IN  CASE req.method = "initialize" -> OkRes(f, Value("initialize"))
          [] req.method = "tools/list" -> OkRes(f, Value("tools"))
          [] req.method = "tools/call" ->
                IF name = Absent THEN ErrRes(f, "missing params.name", "")
                ELSE IF name = "list_dir" THEN tool_list_dir(f, cwd, a, root)
                ELSE IF name = "read_file" THEN tool_read_file(f, cwd, a, root)
                ELSE IF name = "write_file" THEN tool_write_file(f, cwd, a, root)
                ELSE IF name = "unshare_exec"
                     THEN tool_unshare_exec(f, cwd, a, root, outcome)
                ELSE ErrRes(f, "Unknown tool", name)
          [] req.method \in {"resources/list", "prompts/list"} ->
                OkRes(f, Value("resources"))
          [] OTHER -> ErrRes(f, "Method not implemented", req.method)

(***************************************************************************)
(* The inputs of the model: the file system the server is started on, and  *)
(* the lines a client may send.                                            *)
(***************************************************************************)
Ws == <<"ws">>

Outside == <<"out">>

\* /ws holds a directory a with a file f and a symbolic link lnk to /out;
\* /out, outside /ws, holds a file s whose second byte is no UTF-8
InitialFs ==
    (<<>> :> DirNode) @@ (Ws :> DirNode) @@ (<<"ws", "a">> :> DirNode)
    @@ (<<"ws", "a", "f">> :> FileNode(<<97>>))
    @@ (<<"ws", "lnk">> :> LinkNode(AbsOf(Outside)))
    @@ (Outside :> DirNode) @@ (<<"out", "s">> :> FileNode(<<98, 255>>))

\* the working directory and the --root of the process: started inside /ws
\* with the default root ".", or started in / with --root /ws
Startups ==
    {[cwd |-> Ws, root |-> P(FALSE, <<".">>)], [cwd |-> <<>>, root |-> AbsOf(Ws)]}

\* arguments.root values a client sends: /ws, and /ws/nr which does not exist
RootWs == AbsOf(Ws)

RootNew == AbsOf(<<"ws", "nr">>)

\* arguments.path values a client sends
RelInside == P(FALSE, <<"a", "f">>)

RelDotDot == P(FALSE, <<"..", "out", "s">>)

RelViaLink == P(FALSE, <<"lnk", "s">>)

RelNewViaLink == P(FALSE, <<"lnk", "n">>)

RelNew == P(FALSE, <<"n", "m">>)

RelAbsolute == AbsOf(<<"out", "s">>)

FilePaths == {RelInside, RelDotDot, RelViaLink, RelNewViaLink, RelNew, RelAbsolute}

DirPaths == {EmptyPath, P(FALSE, <<"a">>), P(FALSE, <<"..">>), P(FALSE, <<"lnk">>)}

Contents == {<<>>, <<233, 98>>}

WithRoot(a, r) == [a EXCEPT !.has = @ \cup {"root"}, !.root = r]

\* argument objects without arguments.root, with the root /ws, and those of
\* paths N with the root /ws/nr
Rooted(A, N) ==
    A \cup {WithRoot(a, RootWs) : a \in A}
      \cup {WithRoot(a, RootNew) : a \in {x \in A : x.path \in N}}

ListArgs ==
    {NoArgs}
    \cup {[NoArgs EXCEPT !.has = {"path", "recursive"}, !.path = p, !.recursive = b] :
            p \in DirPaths, b \in BOOLEAN}

ReadArgs ==
    {NoArgs}
    \cup {[NoArgs EXCEPT !.has = {"path"}, !.path = p] : p \in FilePaths}
    \cup {[NoArgs EXCEPT !.has = {"path", "offset", "length"}, !.path = RelInside,
                         !.offset = o, !.length = UsizeMax] : o \in {1, UsizeMax}}

WriteArgs ==
    {NoArgs, [NoArgs EXCEPT !.has = {"path"}, !.path = RelInside]}
    \cup {[NoArgs EXCEPT !.has = {"path", "content"}, !.path = p, !.content = c] :
            p \in FilePaths, c \in Contents}
    \cup {[NoArgs EXCEPT !.has = {"path", "content", "append"}, !.path = p,
                         !.content = <<233, 98>>, !.append = TRUE] :
            p \in {RelInside, RelNew}}

ExecArgs == {NoArgs, [NoArgs EXCEPT !.binary = "/bin/echo"]}

Call(name, a) == [name |-> name, arguments |-> a]

CallParams ==
    {Call(Absent, NoArgs), Call("nope", NoArgs)}
    \cup {Call("list_dir", a) : a \in Rooted(ListArgs, {P(FALSE, <<"..">>)})}
    \cup {Call("read_file", a) : a \in Rooted(ReadArgs, {RelNew, RelDotDot})}
    \cup {Call("write_file", a) : a \in Rooted(WriteArgs, {RelNew, RelDotDot})}
    \cup {Call("unshare_exec", a) : a \in Rooted(ExecArgs, {})}

IdFields == {IdAbsent, IdNull, IdNum(7), IdStr(1)}

Methods == {"initialize", "tools/list", "tools/call", "resources/list", "prompts/list"}

Lines ==
    {TextLine("empty"), TextLine("spaces"), TextLine("garbage")}
    \cup {JsonLine(FALSE, IdNum(7), "initialize", NoParams),
          JsonLine(TRUE, IdNum(7), Absent, NoParams),
          JsonLine(TRUE, IdBad, "initialize", NoParams)}
    \cup {JsonLine(TRUE, i, m, NoParams) : i \in IdFields, m \in {"initialize", "foo/bar"}}
    \cup {JsonLine(TRUE, IdNum(7), m, NoParams) : m \in Methods}
    \cup {JsonLine(TRUE, IdNum(7), "tools/call", c) : c \in CallParams}

(***************************************************************************)
(* The state of a session.                                                 *)
(***************************************************************************)
VARIABLES
    fs,         \* the file system
    cwd,        \* the working directory of the process
    argsRoot,   \* Args.root, parsed at startup
    pc,         \* where main is: "read", "parse", "dispatch", "emit", "done", "failed"
    line,       \* the line buffer: the lines read into it and not yet cleared
    req,        \* the RpcRequest parsed from the buffer
    resp,       \* the RpcResponse built and not yet written
    inp,        \* the lines read so far from stdin: TRUE for a blank one
    out,        \* the responses written to stdout: answered line and error code
    written     \* the last successful write_file: root, path, content, newness

vars == <<fs, cwd, argsRoot, pc, line, req, resp, inp, out, written>>

NoWrite ==
    [some |-> FALSE, args |-> NoArgs, fresh |-> FALSE]

\* the state after startup, on one of the file systems F with one of the
\* startups S
InitWith(F, S) ==
    /\ fs \in F
    /\ \E s \in S : cwd = s.cwd /\ argsRoot = s.root
    /\ pc = "read"
    /\ line = <<>>
    /\ req = NoReq
    /\ resp = NoResp
    /\ inp = <<>>
    /\ out = <<>>
    /\ written = NoWrite

Init == InitWith({InitialFs}, Startups)

(***************************************************************************)
(* main: the loop over the input lines.                                    *)
(***************************************************************************)
\* the response to a line that does not parse
ParseErrorResponse ==
    RpcResponse(NoId, NoValue, RpcError(ParseErrorCode, "Parse error", ""))

\* ResultResponse as it would be if the error arm left the id out
ResultResponseNoIdOnError(r, res) ==
    IF res.ok THEN RpcResponse(r.id, res.val, NoError)
    ELSE RpcResponse(NoId, NoValue, RpcError(RuntimeErrorCode, res.msg, res.arg))

\* ResultResponse as it would be with the standard code for an unknown method
ResultResponseStandardCode(r, res) ==
    IF res.ok THEN RpcResponse(r.id, res.val, NoError)
    ELSE RpcResponse(r.id, NoValue,
            RpcError(IF res.msg = "Method not implemented" THEN -32601
                     ELSE RuntimeErrorCode, res.msg, res.arg))

\* the response to a request handle_request has returned from
ResultResponse(r, res) ==
    IF res.ok THEN RpcResponse(r.id, res.val, NoError)
    ELSE RpcResponse(r.id, NoValue, RpcError(RuntimeErrorCode, res.msg, res.arg))

\* AfterHandle as it would be with handle_request(..).await? in main
AfterHandlePropagates(res) ==
    IF res.msg = "panic" THEN "panicked" ELSE IF res.ok THEN "emit" ELSE "failed"

\* where the loop goes with the result of handle_request: both Ok and Err
\* are turned into a response; a panic in the handler ends the process
AfterHandle(res) == IF res.msg = "panic" THEN "panicked" ELSE "emit"

\* what a write to stdout appends: the number of the line answered and the
\* error code of the response (0 for a result)
Written(r) == [line |-> Len(inp), code |-> r.error.code]

\* reader.read_line(&mut line) returned n > 0: one more line is in the buffer
ReadFrom(L) ==
    /\ pc = "read"
    /\ Len(inp) < MaxLines
    /\ \E l \in L :
          /\ line' = Append(line, l)
          /\ inp' = Append(inp, IsBlank(l))
    /\ pc' = "parse"
    /\ UNCHANGED <<fs, cwd, argsRoot, req, resp, out, written>>

ReadLine == ReadFrom(Lines)

\* read_line returned 0: end of the stream, main returns Ok(())
ReadEof ==
    /\ pc = "read"
    /\ pc' = "done"
    /\ UNCHANGED <<fs, cwd, argsRoot, line, req, resp, inp, out, written>>

\* read_line returned an error, which `?` returns from main
ReadFail ==
    /\ pc = "read"
    /\ pc' = "failed"
    /\ UNCHANGED <<fs, cwd, argsRoot, line, req, resp, inp, out, written>>

\* SkipBlank as it would be if a blank line were answered like any other
SkipBlankAnswers ==
    /\ pc = "parse"
    /\ Trimmed(line) = <<>>
    /\ resp' = [some |-> TRUE, r |-> ParseErrorResponse]
    /\ pc' = "emit"
    /\ UNCHANGED <<fs, cwd, argsRoot, line, req, inp, out, written>>

\* trimmed.is_empty(): clear and continue
SkipBlank ==
    /\ pc = "parse"
    /\ Trimmed(line) = <<>>
    /\ line' = <<>>
    /\ pc' = "read"
    /\ UNCHANGED <<fs, cwd, argsRoot, req, resp, inp, out, written>>

\* serde_json::from_str gave Err
ParseFail ==
    /\ pc = "parse"
    /\ Trimmed(line) # <<>>
    /\ ~ParseRequest(line).some
    /\ resp' = [some |-> TRUE, r |-> ParseErrorResponse]
    /\ pc' = "emit"
    /\ UNCHANGED <<fs, cwd, argsRoot, line, req, inp, out, written>>

\* serde_json::from_str gave Ok(req)
ParseOk ==
    /\ pc = "parse"
    /\ Trimmed(line) # <<>>
    /\ ParseRequest(line).some
    /\ req' = ParseRequest(line)
    /\ pc' = "dispatch"
    /\ UNCHANGED <<fs, cwd, argsRoot, line, resp, inp, out, written>>

\* whether the path of arguments a exists under its root before the call
ExistsUnder(f, a) ==
    Exists(f, cwd, Join(CanonicalBase(f, cwd, CallRoot(argsRoot, a)), a.path))

\* the request is an unshare_exec call
IsExecCall(r) == r.some /\ r.method = "tools/call" /\ r.params.name = "unshare_exec"

\* what the operating system may do with the process a request spawns: only
\* unshare_exec spawns one
OutcomesFor(r) ==
    IF IsExecCall(r) THEN ExecOutcomes ELSE {CHOOSE o \in ExecOutcomes : TRUE}

\* handle_request(&args, &req).await and the match on its result
Dispatch ==
    /\ pc = "dispatch"
    /\ \E outcome \in OutcomesFor(req) :
          LET res == handle_request(fs, cwd, argsRoot, req, outcome)
              a == req.params.arguments
          IN  /\ fs' = res.f
              /\ resp' = [some |-> TRUE, r |-> ResultResponse(req, res)]
              /\ pc' = AfterHandle(res)
              /\ written' =
                    IF req.method = "tools/call" /\ req.params.name = "write_file"
                       /\ res.ok
                    THEN [some |-> TRUE, args |-> a, fresh |-> ~ExistsUnder(fs, a)]
                    ELSE written
    /\ UNCHANGED <<cwd, argsRoot, line, req, inp, out>>

\* Emit as it would be without line.clear()
EmitKeepsLine ==
    /\ pc = "emit"
    /\ out' = Append(out, Written(resp.r))
    /\ req' = NoReq
    /\ resp' = NoResp
    /\ pc' = "read"
    /\ UNCHANGED <<fs, cwd, argsRoot, line, inp, written>>

\* write_all, write_all(b"\n"), flush, then line.clear()
Emit ==
    /\ pc = "emit"
    /\ out' = Append(out, Written(resp.r))
    /\ line' = <<>>
    /\ req' = NoReq
    /\ resp' = NoResp
    /\ pc' = "read"
    /\ UNCHANGED <<fs, cwd, argsRoot, inp, written>>

\* one of the writes or the flush returned an error, which `?` returns
EmitFail ==
    /\ pc = "emit"
    /\ pc' = "failed"
    /\ UNCHANGED <<fs, cwd, argsRoot, line, req, resp, inp, out, written>>

Next ==
    \/ ReadLine
    \/ ReadEof
    \/ ReadFail
    \/ SkipBlank
    \/ ParseFail
    \/ ParseOk
    \/ Dispatch
    \/ Emit
    \/ EmitFail

Spec == Init /\ [][Next]_vars

\* the steps of main other than reading a line
Handle ==
    \/ ReadEof
    \/ ReadFail
    \/ SkipBlank
    \/ ParseFail
    \/ ParseOk
    \/ Dispatch
    \/ Emit
    \/ EmitFail

\* lines every client may send besides its calls
CommonLines == {TextLine("empty"), TextLine("garbage")}

FileCall(name, a) == JsonLine(TRUE, IdNum(7), "tools/call", Call(name, a))

StartInWs == {[cwd |-> Ws, root |-> P(FALSE, <<".">>)]}

(***************************************************************************)
(* Sessions of a client that reads /ws/a/f at all offsets and lengths,     *)
(* the file holding nothing, one byte, a two-byte character and a byte, or *)
(* a byte that is no UTF-8.                                                *)
(***************************************************************************)
FileContents == {<<>>, <<97>>, <<195, 169, 98>>, <<98, 255>>}

ReadFs == {Put(InitialFs, <<"ws", "a", "f">>, FileNode(d)) : d \in FileContents}

Offsets == {0, 1, 2, 4, UsizeMax}

ReadLines ==
    CommonLines
    \cup {FileCall("read_file",
             [NoArgs EXCEPT !.has = {"path", "offset"}, !.path = RelInside,
                            !.offset = o]) : o \in Offsets}
    \cup {FileCall("read_file",
             [NoArgs EXCEPT !.has = {"path", "offset", "length"}, !.path = RelInside,
                            !.offset = o, !.length = n]) :
             o \in Offsets, n \in {0, 1, 2, UsizeMax}}

InitRead == InitWith(ReadFs, StartInWs)

ReadClient == ReadFrom(ReadLines)

NextRead == ReadClient \/ Handle

SpecRead == InitRead /\ [][NextRead]_vars

(***************************************************************************)
(* Sessions of a client that lists directories of three trees: the initial *)
(* one; one where /ws/a holds a subdirectory d with a file and a symbolic  *)
(* link back to /ws/a; one where /ws/a holds an unreadable directory x     *)
(* next to a directory b with a file.                                      *)
(***************************************************************************)
CycleFs ==
    (<<"ws", "a", "loop">> :> LinkNode(AbsOf(<<"ws", "a">>)))
    @@ (<<"ws", "a", "d">> :> DirNode)
    @@ (<<"ws", "a", "d", "g">> :> FileNode(<<103, 104>>))
    @@ InitialFs

LockedFs ==
    (<<"ws", "a", "x">> :> LockedNode)
    @@ (<<"ws", "b">> :> DirNode)
    @@ (<<"ws", "b", "h">> :> FileNode(<<104>>))
    @@ InitialFs

ListFs == {InitialFs, CycleFs, LockedFs}

ListPaths ==
    {P(FALSE, <<".">>), P(FALSE, <<"a">>), P(FALSE, <<"a", "f">>), P(FALSE, <<"lnk">>),
     P(FALSE, <<"a", "x">>), P(FALSE, <<"a", "loop">>)}

ListLines ==
    CommonLines
    \cup {FileCall("list_dir", [NoArgs EXCEPT !.has = {"path"}, !.path = p]) :
             p \in ListPaths}
    \cup {FileCall("list_dir",
             [NoArgs EXCEPT !.has = {"path", "recursive"}, !.path = p,
                            !.recursive = b]) : p \in ListPaths, b \in BOOLEAN}

InitList == InitWith(ListFs, StartInWs)

ListClient == ReadFrom(ListLines)

NextList == ListClient \/ Handle

SpecList == InitList /\ [][NextList]_vars

(***************************************************************************)
(* Sessions of a client that calls unshare_exec, with and without a        *)
(* binary, with no root, with the directory a as root and with the file    *)
(* a/f as root.                                                            *)
(***************************************************************************)
ExecRoots == {P(FALSE, <<"a">>), RelInside}

ExecLines ==
    CommonLines
    \cup {FileCall("unshare_exec", a) : a \in ExecArgs}
    \cup {FileCall("unshare_exec", WithRoot(a, r)) : a \in ExecArgs, r \in ExecRoots}

InitExec == InitWith({InitialFs}, StartInWs)

ExecClient == ReadFrom(ExecLines)

NextExec == ExecClient \/ Handle

SpecExec == InitExec /\ [][NextExec]_vars

(***************************************************************************)
(* Sessions of a client that writes and appends to a new file n/m and to   *)
(* the file a/f, with and without `create`, and that sends calls the tools *)
(* reject: a path /new/x outside the root /ws, and missing arguments.      *)
(***************************************************************************)
WritePaths == {RelNew, RelInside}

WriteContents == {<<97>>, <<233, 98>>}

RelRejected == AbsOf(<<"new", "x">>)

WriteCalls ==
    {[NoArgs EXCEPT !.has = {"path", "content"}, !.path = p, !.content = c] :
        p \in WritePaths, c \in WriteContents}

WithAppend(a, b) == [a EXCEPT !.has = @ \cup {"append"}, !.append = b]

WithCreate(a, b) == [a EXCEPT !.has = @ \cup {"create"}, !.create = b]

PathOnly(p) == [NoArgs EXCEPT !.has = {"path"}, !.path = p]

WriteLines ==
    CommonLines
    \cup {FileCall("write_file", a) : a \in WriteCalls}
    \cup {FileCall("write_file", WithAppend(a, TRUE)) : a \in WriteCalls}
    \cup {FileCall("write_file", WithCreate(a, FALSE)) : a \in WriteCalls}
    \cup {FileCall("write_file", WithCreate(WithAppend(a, TRUE), FALSE)) : a \in WriteCalls}
    \cup {FileCall("write_file",
             WithCreate(WithAppend([NoArgs EXCEPT !.has = {"path", "content"},
                                                  !.path = RelNew, !.content = <<97>>],
                                   FALSE), TRUE)),
          FileCall("write_file",
             WithRoot([NoArgs EXCEPT !.has = {"path", "content"}, !.path = RelRejected,
                                     !.content = <<97>>], RootWs)),
          FileCall("read_file", WithRoot(PathOnly(RelRejected), RootWs)),
          FileCall("list_dir", WithRoot(PathOnly(RelRejected), RootWs)),
          FileCall("read_file", PathOnly(RelInside)),
          FileCall("list_dir", PathOnly(P(FALSE, <<"a">>))),
          FileCall("write_file", PathOnly(RelNew)),
          FileCall("write_file", NoArgs),
          FileCall("read_file", NoArgs),
          FileCall("list_dir", NoArgs)}

InitWrite == InitWith({InitialFs}, StartInWs)

WriteClient == ReadFrom(WriteLines)

NextWrite == WriteClient \/ Handle

SpecWrite == InitWrite /\ [][NextWrite]_vars

(***************************************************************************)
(* Sessions with lines of every kind the loop distinguishes: blank ones,   *)
(* ones that do not parse, requests that succeed and requests whose tool   *)
(* fails.                                                                  *)
(***************************************************************************)
LoopLines ==
    CommonLines
    \cup {TextLine("spaces"), JsonLine(TRUE, IdNum(7), Absent, NoParams),
          JsonLine(TRUE, IdNum(7), "initialize", NoParams),
          JsonLine(TRUE, IdAbsent, "foo/bar", NoParams),
          FileCall("read_file", [NoArgs EXCEPT !.has = {"path"}, !.path = RelInside]),
          FileCall("read_file", [NoArgs EXCEPT !.has = {"path"}, !.path = RelNew]),
          FileCall("write_file",
                   [NoArgs EXCEPT !.has = {"path", "content"}, !.path = RelNew,
                                  !.content = <<233, 98>>]),
          FileCall("list_dir", [NoArgs EXCEPT !.has = {"path"}, !.path = RelInside]),
          FileCall("unshare_exec", [NoArgs EXCEPT !.binary = "/bin/echo"])}

LoopClient == ReadFrom(LoopLines)

NextLoop == LoopClient \/ Handle

SpecLoop == Init /\ [][NextLoop]_vars

\* lines of a client whose requests succeed, fail in the dispatch, or fail in
\* a tool: for want of an argument, or because the process cannot be spawned
LiveLines ==
    CommonLines
    \cup {JsonLine(TRUE, IdNum(7), Absent, NoParams),
          JsonLine(TRUE, IdNum(7), "initialize", NoParams),
          JsonLine(TRUE, IdAbsent, "foo/bar", NoParams),
          JsonLine(TRUE, IdNum(7), "tools/call", Call("nope", NoArgs)),
          FileCall("read_file", NoArgs),
          FileCall("write_file", [NoArgs EXCEPT !.has = {"path"}, !.path = RelInside]),
          FileCall("unshare_exec", [NoArgs EXCEPT !.binary = "/bin/echo"])}

LiveClient == ReadFrom(LiveLines)

\* the loop on channels that do not fail: the input is finite and ends, every
\* tool call returns, every write is taken
NextLive ==
    \/ LiveClient
    \/ ReadEof
    \/ SkipBlank
    \/ ParseFail
    \/ ParseOk
    \/ Dispatch
    \/ Emit

SpecLive == Init /\ [][NextLive]_vars /\ WF_vars(NextLive)

(***************************************************************************)
(* Properties.                                                             *)
(***************************************************************************)
\* the request being handled is a call of one of the file tools that reaches
\* the resolver
IsFileCall(r) ==
    /\ r.some
    /\ r.method = "tools/call"
    /\ r.params.name \in {"list_dir", "read_file", "write_file"}
    /\ "path" \in r.params.arguments.has
    /\ r.params.name = "write_file" => "content" \in r.params.arguments.has

\* the root a call is to be confined to: arguments.root when supplied, the
\* root the server was started with when not
RootInEffect(r) ==
    IF "root" \in r.params.arguments.has THEN r.params.arguments.root ELSE argsRoot

\* rel names something that exists and lies outside the existing directory root
Escapes(f, root, rel) ==
    LET b == Lookup(f, cwd, root)
        t == Lookup(f, cwd, Join(AbsOf(b.at), rel))
    IN  b.ok /\ t.ok /\ ~IsPrefix(b.at, t.at)

\* location q lies in the directory root
Inside(f, root, q) ==
    LET b == Lookup(f, cwd, root) IN b.ok /\ IsPrefix(b.at, q)

\* the locations at which g differs from f
Touched(f, g) ==
    {q \in DOMAIN g : q \notin DOMAIN f \/ g[q] # f[q]}
    \cup {q \in DOMAIN f : q \notin DOMAIN g}

\* C1: a list_dir, read_file or write_file call whose path names an existing
\* target outside the root in effect is answered with the error "path escapes
\* root" and leaves the file system as it was.
C1_EscapeRejected ==
    [][(pc = "dispatch" /\ IsFileCall(req)
        /\ Escapes(fs, RootInEffect(req), req.params.arguments.path))
       => (resp'.r.error.msg = "path escapes root" /\ resp'.r.result = NoValue
           /\ fs' = fs)]_vars

\* C2: whatever a successful write_file creates or modifies lies inside the
\* root in effect.
C2_WritesStayInRoot ==
    [][(pc = "dispatch" /\ IsFileCall(req) /\ req.params.name = "write_file"
        /\ resp'.r.error = NoError)
       => \A q \in Touched(fs, fs') : Inside(fs', RootInEffect(req), q)]_vars

\* C3: the base every file call is resolved and checked against is the root
\* given at startup, whatever the request holds.
C3_RootIsStartupRoot ==
    (pc = "dispatch" /\ IsFileCall(req))
    => CanonicalBase(fs, cwd, CallRoot(argsRoot, req.params.arguments))
       = CanonicalBase(fs, cwd, argsRoot)

\* a relative path made absolute from the working directory
Absolute(p) == IF p.abs THEN p ELSE P(TRUE, cwd \o p.segs)

\* C4: a file call without arguments.root is resolved as the resolver resolves
\* its path under the startup root: accepted or rejected alike, and when
\* accepted naming the same location.
C4_DefaultRootIsStartupRoot ==
    (pc = "dispatch" /\ IsFileCall(req) /\ "root" \notin req.params.arguments.has)
    => LET a == req.params.arguments
           got == resolve_under_root(fs, cwd, CallRoot(argsRoot, a), a.path)
           want == resolve_under_root(fs, cwd, argsRoot, a.path)
       IN  got.ok = want.ok /\ (got.ok => Absolute(got.path) = Absolute(want.path))

\* a path without "." and ".." components that is not absolute
NoTraversal(p) == ~p.abs /\ \A i \in 1..Len(p.segs) : p.segs[i] \notin {".", ".."}

\* the request is read_file, with default offset and length, of the path and
\* root of the last successful write_file
ReadsBack(r) ==
    /\ r.some /\ r.method = "tools/call" /\ r.params.name = "read_file"
    /\ written.some
    /\ r.params.arguments.has = {"path"} \cup (written.args.has \cap {"root"})
    /\ r.params.arguments.path = written.args.path
    /\ r.params.arguments.root = written.args.root

\* C10: read_file of a path that did not exist, has no traversal segments and
\* was just written by a successful write_file returns the content written.
C10_WriteReadRoundTrip ==
    (pc = "emit" /\ ReadsBack(req) /\ written.fresh
     /\ NoTraversal(written.args.path))
    => (resp.r.result.tag = "text" /\ resp.r.result.text = written.args.content)

\* the numbers of the non-blank lines among the first k lines read
NonBlankUpTo(k) == SelectSeq([i \in 1..k |-> i], LAMBDA i : ~inp[i])

\* the numbers of the lines answered, in the order of the responses
Answered == [i \in 1..Len(out) |-> out[i].line]

\* C5: the responses written are one per non-blank line, in the order the
\* lines were read, none for a blank line; while a line is being handled
\* every earlier non-blank line has its response, the buffer holds that one
\* line, and nothing is pending when the next line is read.
C5_OneResponsePerLineInOrder ==
    /\ pc \in {"read", "done"} => Answered = NonBlankUpTo(Len(inp))
    /\ pc \in {"parse", "dispatch", "emit"}
          => Answered = NonBlankUpTo(Len(inp) - 1) /\ Len(line) = 1
    /\ pc = "failed"
          => Answered \in {NonBlankUpTo(Len(inp)), NonBlankUpTo(Len(inp) - 1)}
    /\ pc = "read" => line = <<>> /\ ~req.some /\ ~resp.some

\* a blank line and then a request have been read; only the request is answered
C5_Witness ==
    pc = "read" /\ inp = <<TRUE, FALSE>> /\ Answered = <<2>>

\* C6: a line that fails to parse or whose handling fails never ends the
\* loop: from parsing and dispatching the loop goes on to emit, and an error
\* response that the output takes is written for that line, the buffer is
\* cleared and the loop is back at reading.
C6_ErrorsKeepSession ==
    [][/\ pc \in {"parse", "dispatch"} => pc' \in {"read", "dispatch", "emit"}
       /\ (pc = "emit" /\ resp.r.error # NoError /\ pc' # "failed")
             => /\ pc' = "read"
                /\ line' = <<>>
                /\ out' = Append(out, [line |-> Len(inp),
                                       code |-> resp.r.error.code])]_vars

\* after a runtime error response, a later line has been handled and is answered
C6_Witness ==
    /\ pc = "emit" /\ resp.some
    /\ Len(out) >= 1 /\ out[1].code = -32000

\* C7: a response has exactly one of result and error; it carries the id of
\* the request, and no id exactly when the request has none or the line did
\* not parse.
C7_ResponseShape ==
    pc = "emit"
    => /\ resp.some
       /\ Cardinality(Members(resp.r) \cap {"result", "error"}) = 1
       /\ req.some => resp.r.id = req.id
       /\ ("id" \notin Members(resp.r)) <=> (~req.some \/ req.id = NoId)

\* a notification is answered with an error that carries no id
C7_Witness ==
    /\ pc = "emit" /\ req.some /\ req.id = NoId
    /\ Members(resp.r) = {"jsonrpc", "error"}

\* a line that is no JSON-RPC request: no JSON, or an object without a string
\* jsonrpc or method, or with an id that is neither integer nor string
Malformed(l) ==
    \/ l.text = "garbage"
    \/ /\ l.text = "json"
       /\ ~l.jsonrpc \/ l.method = Absent \/ l.id.k \notin {"absent", "null", "num", "str"}

C9_UnknownMethod ==
    (pc = "emit" /\ req.some /\ req.method \notin Methods)
    => /\ resp.r.error = RpcError(-32000, "Method not implemented", req.method)
       /\ resp.r.result = NoValue
       /\ resp.r.id = req.id

\* "foo/bar" with the id "1" is answered with -32000 and that id
C9_Witness ==
    /\ pc = "emit" /\ req.some /\ req.method = "foo/bar" /\ req.id = IdStr(1)
    /\ resp.r.error.code = -32000 /\ resp.r.error.arg = "foo/bar"
    /\ resp.r.id = IdStr(1)

\* the request is a read_file call that the resolver accepts and whose path
\* names a file
ReadsFile(r) ==
    /\ IsFileCall(r) /\ r.params.name = "read_file"
    /\ LET a == r.params.arguments
           p == resolve_under_root(fs, cwd, CallRoot(argsRoot, a), a.path)
       IN  p.ok /\ ReadBytes(fs, cwd, p.path).err = "none"

\* the bytes of the file a read_file call names
FileRead(r) ==
    LET a == r.params.arguments
    IN  ReadBytes(fs, cwd,
            resolve_under_root(fs, cwd, CallRoot(argsRoot, a), a.path).path).data

\* C11: read_file of a file of n bytes succeeds and returns the bytes from
\* min(offset, n) to min(offset + length, n), to the end without length:
\* nothing when offset exceeds n, and no panic for any offset and length.
C11_ReadSlice ==
    /\ pc # "panicked"
    /\ (pc = "emit" /\ ReadsFile(req))
       => LET a == req.params.arguments
              data == FileRead(req)
              n == Len(data)
              offset == IF "offset" \in a.has THEN a.offset ELSE 0
              from == IF offset <= n THEN offset ELSE n
              to == IF "length" \in a.has /\ offset + a.length <= n
                    THEN offset + a.length ELSE n
          IN  /\ resp.r.error = NoError
              /\ from <= to
              /\ resp.r.result.tag = "text"
              /\ resp.r.result.text = FromUtf8Lossy(SubSeq(data, from + 1, to))
              /\ offset > n => resp.r.result.text = <<>>

\* a three-byte file read from offset 1 with a length that runs past its end
C11_Witness ==
    /\ pc = "emit" /\ ReadsFile(req)
    /\ Len(FileRead(req)) = 3
    /\ req.params.arguments.offset = 1 /\ req.params.arguments.length = UsizeMax
    /\ resp.r.result.text = <<Replacement, 98>>

\* the request is a list_dir call whose path the resolver accepts
ListsDir(r) ==
    /\ IsFileCall(r) /\ r.params.name = "list_dir"
    /\ LET a == r.params.arguments
       IN  resolve_under_root(fs, cwd, CallRoot(argsRoot, a), a.path).ok

\* the path the resolver returns for a list_dir call, and its location
ListedPath(r) ==
    LET a == r.params.arguments
    IN  resolve_under_root(fs, cwd, CallRoot(argsRoot, a), a.path).path

ListedAt(r) == Lookup(fs, cwd, ListedPath(r))

ListsRecursively(r) ==
    "recursive" \in r.params.arguments.has /\ r.params.arguments.recursive

\* the locations strictly below directory d: its children, or everything in
\* its subtree
Below(d, deep) ==
    IF deep THEN {q \in DOMAIN fs : q # d /\ IsPrefix(d, q)} ELSE Children(fs, d)

\* the record list_dir owes for the entry at q when listing from d as `dir`
RecordOf(dir, d, q) ==
    [path |-> Join(dir, P(FALSE, SubSeq(q, Len(d) + 1, Len(q)))),
     is_dir |-> fs[q].kind \in {"dir", "locked"},
     len |-> IF fs[q].kind = "file" THEN Len(fs[q].data)
             ELSE IF fs[q].kind = "link" THEN Len(fs[q].target.segs) ELSE 0]

\* the directories a traversal from d has to read: d, and with `deep` every
\* directory in its subtree
ToRead(d, deep) ==
    {d} \cup {q \in Below(d, deep) : deep /\ fs[q].kind \in {"dir", "locked"}}

Range(seq) == {seq[i] : i \in 1..Len(seq)}

\* C12: a successful list_dir returns exactly one {path, is_dir, len} record
\* per direct child of the resolved directory, with recursive=true one per
\* entry at any depth below it, none missing and none twice; and it succeeds
\* whenever every directory it has to read is readable.
C12_ListDirExact ==
    (pc = "emit" /\ ListsDir(req) /\ ListedAt(req).ok)
    => LET d == ListedAt(req).at
           deep == ListsRecursively(req)
           owed == {RecordOf(ListedPath(req), d, q) : q \in Below(d, deep)}
           got == resp.r.result.entries
       IN  /\ (\A q \in ToRead(d, deep) : fs[q].kind = "dir") <=> resp.r.error = NoError
           /\ resp.r.error = NoError
              => /\ resp.r.result.tag = "json"
                 /\ Range(got) = owed
                 /\ Len(got) = Cardinality(Below(d, deep))

\* /ws of the tree with the link cycle listed recursively: a, a/f, a/loop,
\* a/d, a/d/g and lnk; and /ws/a of the same tree listed without recursion
C12_Witness ==
    /\ pc = "emit" /\ ListsDir(req) /\ fs = CycleFs
    /\ resp.r.error = NoError
    /\ \/ ListedAt(req).at = Ws /\ ListsRecursively(req)
          /\ Len(resp.r.result.entries) = 6
       \/ ListedAt(req).at = <<"ws", "a">> /\ ~ListsRecursively(req)
          /\ Len(resp.r.result.entries) = 3

\* C17: list_dir is all-or-nothing: when the resolved path is not a directory
\* or a directory reached by the traversal cannot be read, the response is a
\* runtime error without a result, whatever entries were collected before.
C17_ListDirAllOrNothing ==
    (pc = "emit" /\ ListsDir(req))
    => LET at == ListedAt(req)
           deep == ListsRecursively(req)
       IN  (~at.ok \/ \E q \in ToRead(at.at, deep) : fs[q].kind # "dir")
           => /\ resp.r.error.code = RuntimeErrorCode
              /\ resp.r.error.msg = "read_dir"
              /\ resp.r.result = NoValue

\* /ws listed recursively where /ws/a/x is unreadable: the entries of /ws
\* were collected before x was reached, the response is an error
C17_Witness ==
    /\ pc = "emit" /\ ListsDir(req) /\ fs = LockedFs
    /\ ListedAt(req).at = Ws /\ ListsRecursively(req)
    /\ ListRun(fs, cwd, <<ListedPath(req)>>, <<>>, <<>>, TRUE).entries # <<>>
    /\ resp.r.error.code = RuntimeErrorCode

\* the traversal of a list_dir call
RunOf(r) == ListRun(fs, cwd, <<ListedPath(r)>>, <<>>, <<>>, ListsRecursively(r))

\* C20: the work-stack traversal ends, having read each directory at most
\* once and only directories of the subtree of the resolved directory: a
\* symbolic link to a directory is listed and not expanded.
C20_TraversalTerminates ==
    (pc = "emit" /\ ListsDir(req) /\ ListedAt(req).ok)
    => LET run == RunOf(req)
           d == ListedAt(req).at
       IN  /\ \A i, j \in 1..Len(run.expanded) :
                 run.expanded[i] = run.expanded[j] => i = j
           /\ \A i \in 1..Len(run.expanded) :
                 /\ IsPrefix(d, run.expanded[i])
                 /\ fs[run.expanded[i]].kind = "dir"
           /\ Len(run.expanded) <= Cardinality({q \in DOMAIN fs : fs[q].kind = "dir"})
           /\ resp.some

\* /ws of the tree with the link cycle listed recursively: /ws, /ws/a and
\* /ws/a/d are read, the link /ws/a/loop is not
C20_Witness ==
    /\ pc = "emit" /\ ListsDir(req) /\ fs = CycleFs
    /\ ListedAt(req).at = Ws /\ ListsRecursively(req)
    /\ Range(RunOf(req).expanded) = {Ws, <<"ws", "a">>, <<"ws", "a", "d">>}
    /\ resp.r.error = NoError

\* the step answers the request with what handle_request gives when the
\* operating system behaves as in `outcome`
HandledWith(outcome) ==
    LET res == handle_request(fs, cwd, argsRoot, req, outcome)
    IN  pc = "dispatch" /\ resp'.some /\ resp'.r = ResultResponse(req, res) /\ fs' = res.f

\* unshare was started for the call: a binary is named, the sandbox
\* directory exists or was created, and the spawn succeeded
Launched(outcome) ==
    LET a == req.params.arguments
    IN  /\ a.binary # Absent
        /\ CreateDirAll(fs, cwd, Join(CallRoot(argsRoot, a), P(FALSE, <<"sandbox">>))).ok
        /\ outcome.spawned

\* C13 as stated: whenever the process was launched the call returns a
\* success result with the exit code as data, and an error response is
\* produced only when `binary` is missing or the launch itself fails.
C13_ExitCodeIsData ==
    [][\A o \in ExecOutcomes :
          (IsExecCall(req) /\ HandledWith(o))
          => /\ Launched(o) => /\ resp'.r.error = NoError
                               /\ resp'.r.result.tag = "exec"
                               /\ resp'.r.result.n = ExitStatus(o)
             /\ resp'.r.error # NoError
                => req.params.arguments.binary = Absent \/ resp'.r.error.msg = "spawn"]_vars

\* C13 amended: whenever the process was launched the call returns a success
\* result with the exit code as data (-1 without a code); an error response
\* is produced only when `binary` is missing, when the sandbox directory
\* under the root cannot be created, or when the launch itself fails.
C13_ExitCodeIsDataAmended ==
    [][\A o \in ExecOutcomes :
          (IsExecCall(req) /\ HandledWith(o))
          => /\ Launched(o) => /\ resp'.r.error = NoError
                               /\ resp'.r.result.tag = "exec"
                               /\ resp'.r.result.n = ExitStatus(o)
             /\ resp'.r.error # NoError
                => /\ resp'.r.error.code = RuntimeErrorCode
                   /\ \/ req.params.arguments.binary = Absent
                         /\ resp'.r.error.msg = "binary required"
                      \/ req.params.arguments.binary # Absent
                         /\ resp'.r.error.msg = "create_dir_all"
                         /\ ~CreateDirAll(fs, cwd,
                                Join(CallRoot(argsRoot, req.params.arguments),
                                     P(FALSE, <<"sandbox">>))).ok
                      \/ Launched([o EXCEPT !.spawned = TRUE])
                         /\ ~o.spawned /\ resp'.r.error.msg = "spawn"]_vars

\* a call whose program ended with 1, or without a code, answered with a
\* success result carrying that code
C13_Witness ==
    /\ pc = "emit" /\ IsExecCall(req)
    /\ resp.r.error = NoError /\ resp.r.result.tag = "exec"
    /\ resp.r.result.n \in {-1, 1}
    /\ Exists(fs, cwd, P(FALSE, <<"sandbox">>))

\* C14: when the binary cannot be started inside the new namespaces (the
\* host refuses the unshare, or the binary is not found), the call is
\* answered with a -32000 error; a success result is returned only for a
\* program that ran sandboxed.
C14_NotStartedIsError ==
    [][\A o \in ExecOutcomes :
          (IsExecCall(req) /\ HandledWith(o) /\ Launched(o))
          => /\ ~RanSandboxed(o) => resp'.r.error.code = RuntimeErrorCode
             /\ resp'.r.error = NoError => RanSandboxed(o)]_vars

\* C15: on channels that do not fail, with a finite input and tool calls
\* that return, the server never ends with an error, whatever the tools
\* answer, and eventually returns Ok from main at end-of-stream with every
\* non-blank line answered.
C15_CleanTermination ==
    /\ [](pc \notin {"failed", "panicked"})
    /\ <>(pc = "done" /\ Answered = NonBlankUpTo(Len(inp)))

\* the session ended cleanly after a request answered with a tool error
C15_Witness ==
    /\ pc = "done"
    /\ \E i \in 1..Len(out) : out[i].code = RuntimeErrorCode

\* C19: the buffer is empty whenever a line is read, so it holds exactly the
\* line just read; the request dispatched is that line parsed on its own;
\* the response is what handle_request gives for that request on the
\* current file system; and every way back to reading clears the buffer.
C19_BufferCleared ==
    [][/\ (pc = "read" /\ pc' = "parse") => line = <<>> /\ Len(line') = 1
       /\ (pc = "parse" /\ pc' = "dispatch")
             => req' = ParseRequest(<<line[Len(line)]>>) /\ req'.some
       /\ (pc = "parse" /\ pc' = "emit")
             => ~ParseRequest(<<line[Len(line)]>>).some /\ resp'.r = ParseErrorResponse
       /\ pc = "dispatch"
             => \E o \in OutcomesFor(req) :
                   resp'.r = ResultResponse(req, handle_request(fs, cwd, argsRoot, req, o))
       /\ pc' = "read" => line' = <<>>]_vars

\* a second line is being handled after a first one was answered, and the
\* buffer holds that second line only
C19_Witness ==
    /\ pc = "dispatch" /\ Len(inp) = 2 /\ Len(out) = 1
    /\ Len(line) = 1 /\ req = ParseRequest(line)

\* the request is a call of one of the three file tools, whatever arguments
\* it has
IsFileTool(r) ==
    r.some /\ r.method = "tools/call"
    /\ r.params.name \in {"list_dir", "read_file", "write_file"}

\* what the resolver says about the path of a call
Resolved(r) ==
    resolve_under_root(fs, cwd, CallRoot(argsRoot, r.params.arguments),
                       r.params.arguments.path)

\* C16: a file tool call that ends in a containment violation or a missing
\* argument leaves the file system as it was; whenever the resolver rejects
\* the path the call ends so; and the file system changes, parent
\* directories included, only in a write_file call whose path the resolver
\* accepted.
C16_CheckBeforeEffect ==
    [][(pc = "dispatch" /\ IsFileTool(req))
       => /\ resp'.r.error.msg \in {"path escapes root", "list_dir.path is required",
                                    "read_file.path is required",
                                    "write_file.path is required",
                                    "write_file.content is required"}
             => fs' = fs
          /\ (IsFileCall(req) /\ ~Resolved(req).ok)
             => resp'.r.error.msg = "path escapes root" /\ fs' = fs
          /\ fs' # fs
             => req.params.name = "write_file" /\ IsFileCall(req) /\ Resolved(req).ok]_vars

\* a write to /new/x under the root /ws was rejected and /new was not created
C16_Witness ==
    /\ pc = "emit" /\ IsFileCall(req) /\ req.params.name = "write_file"
    /\ req.params.arguments.path = RelRejected
    /\ resp.r.error.msg = "path escapes root"
    /\ <<"new">> \notin DOMAIN fs

\* the request with its `create` argument removed
WithoutCreate(r) == [r EXCEPT !.params.arguments.has = @ \ {"create"}]

\* C18: a successful write_file leaves at its path the bytes of its content,
\* preceded when append=true by what the file held before (nothing when it
\* did not exist), and otherwise changes nothing but missing parent
\* directories; by induction a sequence of calls leaves the content of the
\* last append=false call followed by those of the later append=true calls.
\* The outcome of a call is the outcome of the same call without `create`.
C18_WriteAppendSequence ==
    [][(pc = "dispatch" /\ IsFileCall(req) /\ req.params.name = "write_file")
       => /\ resp'.r.error = NoError
             => LET a == req.params.arguments
                    p == Resolved(req).path
                    before == ReadBytes(fs, cwd, p)
                    after == ReadBytes(fs', cwd, p)
                    kept == IF "append" \in a.has /\ a.append /\ before.err = "none"
                            THEN before.data ELSE <<>>
                IN  /\ after.err = "none"
                    /\ after.data = kept \o AsBytes(a.content)
                    /\ \A q \in Touched(fs, fs') :
                          \/ q = Lookup(fs', cwd, p).at
                          \/ q \notin DOMAIN fs /\ fs'[q] = DirNode
          /\ LET res == handle_request(fs, cwd, argsRoot, WithoutCreate(req),
                                       CHOOSE o \in ExecOutcomes : TRUE)
             IN  resp'.r = ResultResponse(req, res) /\ fs' = res.f]_vars

\* "a" was written to the new file n/m and then the two-byte character and
\* "b" appended with create = false: the file holds both, in that order
C18_Witness ==
    /\ pc = "emit" /\ IsFileCall(req) /\ req.params.name = "write_file"
    /\ resp.r.error = NoError
    /\ "create" \in req.params.arguments.has /\ ~req.params.arguments.create
    /\ req.params.arguments.append
    /\ <<"ws", "n", "m">> \in DOMAIN fs
    /\ fs[<<"ws", "n", "m">>].data = <<97, 195, 169, 98>>

====
